---- MODULE Spec2Model ----
(***************************************************************************)
(* Position lifecycle and portfolio risk allocation of solana-snail-scalp. *)
(*                                                                         *)
(* Four independent components of the repository are modelled; `engine`    *)
(* says which one a behaviour runs (they are separate objects that never   *)
(* call each other in the modelled operations, except Trader, which owns   *)
(* a RiskManager):                                                         *)
(*   "pm"     snail_scalp.portfolio_manager.PortfolioManager               *)
(*   "fx"     forex_bot.portfolio_manager.PortfolioManager                 *)
(*   "trader" snail_scalp.trader.Trader + snail_scalp.risk_manager         *)
(*   "bt"     forex_bot.strategy.backtest.ForexBacktest                    *)
(*                                                                         *)
(* Numbers: Python floats are modelled as integers in fixed point          *)
(* (USD in cents, percentages in basis points, stop prices scaled by       *)
(* SCALE); a quotient that is not an integer is floored.                   *)
(***************************************************************************)
EXTENDS Integers, Sequences, FiniteSets, TLC

VARIABLES engine,     \* which component this behaviour runs
          pm,         \* snail_scalp PortfolioManager.state
          pm_max_positions,  \* the max_positions argument PortfolioManager was constructed with
          fx,         \* forex_bot PortfolioManager: state, total_pnl, trade_history
          fx_corr,    \* CorrelationMonitor: coefficient (x100) of the two pairs
          now,        \* wall clock (time.time(), datetime.now()) in ticks of one hour
          cfg,        \* Trader.config, the strategy_config dict given to the constructor
          active_position,  \* Trader.active_position
          trade_history,    \* Trader.trade_history
          total_pnl,        \* Trader.total_pnl
          daily_stats,      \* RiskManager.daily_stats
          obs,        \* what the last Trader.manage_position call computed and did
          bt,         \* ForexBacktest: capital, active_trade, trades, statistics, bar clock
          tracker,    \* snail_scalp CorrelationTracker: coefficient (x100) per pair of tokens
          weekend,    \* forex_bot WeekendGapProtection: its two attributes
          disk,       \* the state files: portfolio_state.json, trading_state.json, trades.json
          proc,       \* the process: is it running, how often was it started again
          last_call   \* the last public call made and what it returned

trVars == <<cfg, active_position, trade_history, total_pnl, obs>>
rmVars == <<now, daily_stats>>
vars == <<engine, pm_max_positions, pm, fx, fx_corr, now, cfg, active_position, trade_history,
          total_pnl, daily_stats, obs, bt, tracker, weekend, disk, proc, last_call>>

\* what the operations of one component leave alone
NotPm == <<engine, pm_max_positions, fx, fx_corr, trVars, rmVars, bt, tracker, weekend>>
NotFx == <<engine, pm_max_positions, pm, trVars, rmVars, bt, tracker, weekend, disk, proc>>
NotTr == <<engine, pm_max_positions, pm, fx, fx_corr, bt, tracker, weekend>>
NotBt == <<engine, pm_max_positions, pm, fx, fx_corr, trVars, rmVars, tracker, weekend, disk, proc>>
NotCt == <<engine, pm_max_positions, pm, fx, fx_corr, trVars, rmVars, bt, weekend, disk, proc>>
NotCal == <<engine, pm_max_positions, pm, fx, fx_corr, trVars, rmVars, bt, tracker, disk, proc>>
NotFn == <<engine, pm_max_positions, pm, fx, fx_corr, trVars, rmVars, bt, tracker, weekend,
           disk, proc>>

\* ------------------------------------------------------------------ bounds
MaxTrades == 2        \* positions opened over one run of a portfolio manager
MaxTraderTrades == 1  \* positions opened over one run of a Trader
MaxTraderTicks == 5   \* hours a run of a Trader lasts
TrailingUpdateInterval == 2  \* cfg trailing_update_interval, in ticks
MaxHoldTime == 4      \* cfg max_hold_time_minutes, in ticks
MaxRiskTrades == 3    \* record_trade calls made on a RiskManager driven directly
MaxRiskTicks == 8     \* clock steps of a RiskManager driven directly
MaxBars == 5          \* bars a ForexBacktest run iterates over
MaxRestarts == 1      \* times the process is started again on its state files

\* ----------------------------------------------------------------- helpers
Min(a, b) == IF a <= b THEN a ELSE b
Max(a, b) == IF a >= b THEN a ELSE b
Abs(a) == IF a >= 0 THEN a ELSE -a

RECURSIVE SumOver(_, _)
SumOver(f, S) == IF S = {} THEN 0
                 ELSE LET x == CHOOSE y \in S : TRUE
                      IN f[x] + SumOver(f, S \ {x})

NoCall == [op |-> "none", key |-> "", ok |-> FALSE]

\* a state file: not there, written completely by json.dump, or cut short
\* after open(file, "w") truncated it
NoFile == [kind |-> "absent"]
TornFile == [kind |-> "torn"]
File(data) == [kind |-> "complete", data |-> data]

NoDisk == [portfolio |-> NoFile, risk |-> NoFile, trades |-> NoFile]
FirstRun == [running |-> TRUE, restarts |-> 0]
Restarted(pr) == [running |-> TRUE, restarts |-> pr.restarts + 1]

(***************************************************************************)
(* snail_scalp.portfolio_manager                                           *)
(***************************************************************************)
Symbols == {"SOL", "BONK"}
PmPrices == {100, 110}             \* entry_price passed to open_position
PmDcaPrices == {100}               \* dca_price passed to execute_dca
PmTp1Prices == {110}               \* exit_price passed to partial_close
PmSizes == {300, 700}              \* size_usd requested, in cents
PmDcaSizes == {400, 2500}          \* dca_size requested, in cents
PmPortions == {50}                 \* portion of partial_close, in percent
\* (exit_price, CloseReason) pairs passed by the callers
PmCloses == {<<100, "stop_loss">>, <<110, "tp2">>}

PmInitialCapital == 2000           \* initial_capital = 20.0
PmMaxConcurrent == 3               \* PortfolioState.max_concurrent_positions
PmMaxAllocation == 600             \* PortfolioState.max_allocation_per_token

\* values of the max_positions argument of PortfolioManager.__init__
PmMaxPositionsChoices == {1, PmMaxConcurrent}

PmOpenStatuses == {"open", "partial"}

\* PortfolioState.open_position_count
open_position_count(st) ==
    Cardinality({s \in DOMAIN st.positions : st.positions[s].status \in PmOpenStatuses})

\* PortfolioState.can_open_position
can_open_position(st, size_usd) ==
    /\ ~(open_position_count(st) >= st.max_concurrent_positions)
    /\ ~(st.available_capital < size_usd)
    /\ ~(size_usd > st.max_allocation_per_token)

\* PortfolioManager.has_open_position
has_open_position(st, symbol) ==
    /\ symbol \in DOMAIN st.positions
    /\ st.positions[symbol].status \in PmOpenStatuses

\* price_change = (exit_price - entry_price) / entry_price ; pnl = size * price_change
PmPnl(size, entry_price, exit_price) == (size * (exit_price - entry_price)) \div entry_price

\* a dict with one key set / removed
DictSet(d, k, v) == [x \in (DOMAIN d) \cup {k} |-> IF x = k THEN v ELSE d[x]]
DictDel(d, k) == [x \in (DOMAIN d) \ {k} |-> d[x]]

PmInitState ==
    [initial_capital |-> PmInitialCapital,
     available_capital |-> PmInitialCapital,
     total_allocated |-> 0,
     total_realized_pnl |-> 0,
     positions |-> <<>>,
     closed_positions |-> <<>>,
     max_concurrent_positions |-> PmMaxConcurrent,
     max_allocation_per_token |-> PmMaxAllocation]

\* TokenPosition.to_dict
PmPositionToDict(p) ==
    [symbol |-> p.symbol, entry_price |-> p.entry_price, size_usd |-> p.size_usd,
     status |-> p.status, dca_done |-> p.dca_done, tp1_hit |-> p.tp1_hit,
     realized_pnl |-> p.realized_pnl, exit_price |-> p.exit_price,
     close_reason |-> p.close_reason]

\* PortfolioManager._dict_to_position
PmDictToPosition(d) ==
    [symbol |-> d.symbol, entry_price |-> d.entry_price, size_usd |-> d.size_usd,
     status |-> d.status, dca_done |-> d.dca_done, tp1_hit |-> d.tp1_hit,
     realized_pnl |-> d.realized_pnl, exit_price |-> d.exit_price,
     close_reason |-> d.close_reason]

\* PortfolioManager._save_state: the file it writes
PmSaveState(st) ==
    File([initial_capital |-> st.initial_capital,
          available_capital |-> st.available_capital,
          total_realized_pnl |-> st.total_realized_pnl,
          max_concurrent_positions |-> st.max_concurrent_positions,
          max_allocation_per_token |-> st.max_allocation_per_token,
          positions |-> [k \in DOMAIN st.positions |-> PmPositionToDict(st.positions[k])],
          closed_positions |-> [i \in 1..Len(st.closed_positions) |->
                                  PmPositionToDict(st.closed_positions[i])]])

\* PortfolioManager._load_state: a missing file and a file json.load fails on
\* both give a fresh PortfolioState; total_allocated is not read
PmLoadState(f) ==
    IF f.kind = "complete"
    THEN [initial_capital |-> f.data.initial_capital,
          available_capital |-> f.data.available_capital,
          total_allocated |-> 0,
          total_realized_pnl |-> f.data.total_realized_pnl,
          positions |-> [k \in DOMAIN f.data.positions |->
                           PmDictToPosition(f.data.positions[k])],
          closed_positions |-> [i \in 1..Len(f.data.closed_positions) |->
                                  PmDictToPosition(f.data.closed_positions[i])],
          max_concurrent_positions |-> f.data.max_concurrent_positions,
          max_allocation_per_token |-> f.data.max_allocation_per_token]
    ELSE PmInitState

\* the disk after an operation that took st to st2: every operation that
\* gets past its early returns changes the state and ends in _save_state
PmSaved(d, st, st2) ==
    IF st2 # st THEN [d EXCEPT !.portfolio = PmSaveState(st2)] ELSE d

PmOpened(st) == Cardinality(DOMAIN st.positions) + Len(st.closed_positions)

\* an open_position that forgets the has_open_position check
PmOpenAdmitted_NoDuplicateCheck(st, symbol, size_usd) == can_open_position(st, size_usd)

\* the guard of PortfolioManager.open_position: both early returns passed
PmOpenAdmitted(st, symbol, size_usd) ==
    /\ can_open_position(st, size_usd)
    /\ ~has_open_position(st, symbol)

\* PortfolioManager.open_position
pm_open_position(symbol, entry_price, size_usd) ==
    /\ engine = "pm" /\ proc.running
    /\ PmOpened(pm) < MaxTrades \/ ~PmOpenAdmitted(pm, symbol, size_usd)
    /\ IF PmOpenAdmitted(pm, symbol, size_usd)
       THEN /\ pm' = [pm EXCEPT
                 !.positions = DictSet(@, symbol,
                     [symbol |-> symbol, entry_price |-> entry_price,
                      size_usd |-> size_usd, status |-> "open",
                      dca_done |-> FALSE, tp1_hit |-> FALSE,
                      realized_pnl |-> 0, exit_price |-> 0,
                      close_reason |-> "none"]),
                 !.available_capital = @ - size_usd,
                 !.total_allocated = @ + size_usd]
            /\ last_call' = [op |-> "open_position", key |-> symbol, ok |-> TRUE]
       ELSE /\ pm' = pm
            /\ last_call' = [op |-> "open_position", key |-> symbol, ok |-> FALSE]
    /\ disk' = PmSaved(disk, pm, pm')
    /\ UNCHANGED <<NotPm, proc>>

\* an execute_dca that forgets the dca_done check
PmDcaAdmitted_NoDoneCheck(st, symbol, dca_size) ==
    /\ symbol \in DOMAIN st.positions
    /\ st.positions[symbol].status = "open"
    /\ ~(dca_size > st.available_capital)

\* the guard of PortfolioManager.execute_dca: all three early returns passed
PmDcaAdmitted(st, symbol, dca_size) ==
    /\ symbol \in DOMAIN st.positions
    /\ st.positions[symbol].status = "open"
    /\ ~st.positions[symbol].dca_done
    /\ ~(dca_size > st.available_capital)

\* PortfolioManager.execute_dca
pm_execute_dca(symbol, dca_price, dca_size) ==
    /\ engine = "pm" /\ proc.running
    /\ IF PmDcaAdmitted(pm, symbol, dca_size)
       THEN LET pos == pm.positions[symbol]
                new_size == pos.size_usd + dca_size
            IN /\ pm' = [pm EXCEPT
                    !.positions[symbol] = [pos EXCEPT
                        !.size_usd = new_size,
                        !.entry_price = (pos.entry_price * pos.size_usd
                                         + dca_price * dca_size) \div new_size,
                        !.dca_done = TRUE],
                    !.available_capital = @ - dca_size,
                    !.total_allocated = @ + dca_size]
               /\ last_call' = [op |-> "execute_dca", key |-> symbol, ok |-> TRUE]
       ELSE /\ pm' = pm
            /\ last_call' = [op |-> "execute_dca", key |-> symbol, ok |-> FALSE]
    /\ disk' = PmSaved(disk, pm, pm')
    /\ UNCHANGED <<NotPm, proc>>

\* a partial close that releases the closed size but not its profit
PmReleasePartial_NoPnl(available, close_size, pnl) == available + close_size

\* available_capital after a partial close of close_size with profit pnl
PmReleasePartial(available, close_size, pnl) == available + close_size + pnl

\* PortfolioManager.partial_close
pm_partial_close(symbol, exit_price, portion) ==
    /\ engine = "pm" /\ proc.running
    /\ IF symbol \in DOMAIN pm.positions /\ pm.positions[symbol].status = "open"
       THEN LET pos == pm.positions[symbol]
                close_size == (pos.size_usd * portion) \div 100
                pnl == PmPnl(close_size, pos.entry_price, exit_price)
            IN /\ pm' = [pm EXCEPT
                    !.positions[symbol] = [pos EXCEPT
                        !.realized_pnl = @ + pnl,
                        !.size_usd = @ - close_size,
                        !.tp1_hit = TRUE,
                        !.status = "partial"],
                    !.available_capital = PmReleasePartial(@, close_size, pnl),
                    !.total_allocated = @ - close_size,
                    !.total_realized_pnl = @ + pnl]
               /\ last_call' = [op |-> "partial_close", key |-> symbol, ok |-> TRUE]
       ELSE /\ pm' = pm
            /\ last_call' = [op |-> "partial_close", key |-> symbol, ok |-> FALSE]
    /\ disk' = PmSaved(disk, pm, pm')
    /\ UNCHANGED <<NotPm, proc>>

\* a close_position that moves the position to closed_positions as it stands
PmClosedPosition_StatusKept(pos, exit_price, reason, remaining_pnl) ==
    [pos EXCEPT !.exit_price = exit_price,
                !.close_reason = reason,
                !.realized_pnl = pos.realized_pnl + remaining_pnl]

\* the position record close_position appends to closed_positions
PmClosedPosition(pos, exit_price, reason, remaining_pnl) ==
    [pos EXCEPT !.exit_price = exit_price,
                !.close_reason = reason,
                !.status = "closed",
                !.realized_pnl = pos.realized_pnl + remaining_pnl]

\* PortfolioManager.close_position
pm_close_position(symbol, exit_price, reason) ==
    /\ engine = "pm" /\ proc.running
    /\ IF has_open_position(pm, symbol)
       THEN LET pos == pm.positions[symbol]
                remaining_size == pos.size_usd
                remaining_pnl == PmPnl(remaining_size, pos.entry_price, exit_price)
                closed == PmClosedPosition(pos, exit_price, reason, remaining_pnl)
            IN /\ pm' = [pm EXCEPT
                    !.available_capital = @ + remaining_size + remaining_pnl,
                    !.total_allocated = @ - remaining_size,
                    !.total_realized_pnl = @ + remaining_pnl,
                    !.closed_positions = Append(@, closed),
                    !.positions = DictDel(@, symbol)]
               /\ last_call' = [op |-> "close_position", key |-> symbol, ok |-> TRUE]
       ELSE /\ pm' = pm
            /\ last_call' = [op |-> "close_position", key |-> symbol, ok |-> FALSE]
    /\ disk' = PmSaved(disk, pm, pm')
    /\ UNCHANGED <<NotPm, proc>>

\* some mutation gets past its early returns, so _save_state is about to run
PmWouldSave(st) ==
    \/ \E s \in Symbols, z \in PmSizes : PmOpenAdmitted(st, s, z)
    \/ \E s \in Symbols : has_open_position(st, s)

\* the process ends between two operations and a new PortfolioManager is
\* constructed on the same state file
pm_restart ==
    /\ engine = "pm"
    /\ proc.restarts < MaxRestarts
    /\ pm' = PmLoadState(disk.portfolio)
    /\ proc' = Restarted(proc)
    /\ last_call' = [op |-> "restart", key |-> "", ok |-> TRUE]
    /\ UNCHANGED <<NotPm, disk>>

\* the process is stopped inside _save_state, between open(file, "w") and the
\* end of json.dump
pm_stop_in_save ==
    /\ engine = "pm" /\ proc.running
    /\ PmWouldSave(pm)
    /\ disk' = [disk EXCEPT !.portfolio = TornFile]
    /\ proc' = [proc EXCEPT !.running = FALSE]
    /\ last_call' = [op |-> "stop_in_save", key |-> "", ok |-> FALSE]
    /\ UNCHANGED <<NotPm, pm>>

PmProcNext == pm_restart \/ pm_stop_in_save

PmNext ==
    \/ \E s \in Symbols, p \in PmPrices, z \in PmSizes : pm_open_position(s, p, z)
    \/ \E s \in Symbols, p \in PmDcaPrices, z \in PmDcaSizes : pm_execute_dca(s, p, z)
    \/ \E s \in Symbols, p \in PmTp1Prices, q \in PmPortions : pm_partial_close(s, p, q)
    \/ \E s \in Symbols, c \in PmCloses : pm_close_position(s, c[1], c[2])

(***************************************************************************)
(* forex_bot.portfolio_manager                                             *)
(***************************************************************************)
FxPairs == {"USD_SGD", "USD_MYR"}        \* keys of pair_configs
FxCodes == FxPairs \cup {"XXX_YYY"}      \* pair codes callers may pass
FxPrices == {13500, 13530}               \* prices in pips (0.0001)
FxLots == {5}                            \* size_lots in micro lots (0.01)
FxReasons == {"Stop loss", "TP3"}        \* reason strings passed by the callers
FxNoCorr == 1000                         \* stands for calculate_correlation() = None
FxCorrValues == {FxNoCorr, 50, 90, -90}  \* calculate_correlation: None or r x 100
FxMaxPositionsChoices == {1, 2}          \* max_positions given to the constructor

FxInitialCapital == 100000               \* initial_capital = 1000.0
FxPipValue == 10                         \* pip_value_usd 0.1, in cents
FxThreshold == 85                        \* correlation_threshold = 0.85
FxStopPips == 25
FxTargetPips == <<25, 50, 80>>

\* CorrelationMonitor.are_correlated, for two different pairs
are_correlated(corr, pair1, pair2) ==
    IF corr = FxNoCorr THEN FALSE
    ELSE IF pair1 \notin FxPairs \/ pair2 \notin FxPairs THEN FALSE
    ELSE IF pair1 = pair2 THEN 100 > FxThreshold
    ELSE Abs(corr) > FxThreshold

\* a can_open_position that forgets the max positions check
fx_can_open_position_NoMaxCheck(st, corr, pair_code) ==
    IF pair_code \notin FxPairs THEN <<FALSE, "Invalid pair">>
    ELSE IF pair_code \in DOMAIN st.positions
         THEN <<FALSE, "Already have position">>
    ELSE IF \E open_pair \in DOMAIN st.positions : are_correlated(corr, pair_code, open_pair)
         THEN <<FALSE, "Correlated">>
    ELSE <<TRUE, "OK">>

\* PortfolioManager.can_open_position (forex): (can_trade, reason)
fx_can_open_position(st, corr, pair_code) ==
    IF pair_code \notin FxPairs THEN <<FALSE, "Invalid pair">>
    ELSE IF Cardinality(DOMAIN st.positions) >= st.max_positions
         THEN <<FALSE, "Max positions reached">>
    ELSE IF pair_code \in DOMAIN st.positions
         THEN <<FALSE, "Already have position">>
    ELSE IF \E open_pair \in DOMAIN st.positions : are_correlated(corr, pair_code, open_pair)
         THEN <<FALSE, "Correlated">>
    ELSE <<TRUE, "OK">>

FxInitState(max_positions) ==
    [capital |-> FxInitialCapital,
     positions |-> <<>>,
     max_positions |-> max_positions,
     total_pnl |-> 0,
     trade_history |-> <<>>]

FxOpened(st) == Cardinality(DOMAIN st.positions) + Len(st.trade_history)

\* PortfolioManager.open_position (forex)
fx_open_position(pair_code, entry_price, size_lots, stop_price, targets) ==
    /\ engine = "fx"
    /\ LET can == fx_can_open_position(fx, fx_corr, pair_code)
       IN /\ FxOpened(fx) < MaxTrades \/ ~can[1]
          /\ IF ~can[1]
             THEN /\ fx' = fx
                  /\ last_call' = [op |-> "fx_open_position", key |-> pair_code, ok |-> FALSE]
             ELSE /\ fx' = [fx EXCEPT !.positions = DictSet(@, pair_code,
                              [pair_code |-> pair_code, entry_price |-> entry_price,
                               size_lots |-> size_lots, stop_price |-> stop_price,
                               targets |-> targets])]
                  /\ last_call' = [op |-> "fx_open_position", key |-> pair_code, ok |-> TRUE]
    /\ UNCHANGED <<NotFx, fx_corr>>

\* PortfolioManager.close_position (forex); ok = FALSE stands for the None returned
fx_close_position(pair_code, exit_price, reason) ==
    /\ engine = "fx"
    /\ IF pair_code \notin DOMAIN fx.positions
       THEN /\ fx' = fx
            /\ last_call' = [op |-> "fx_close_position", key |-> pair_code, ok |-> FALSE]
       ELSE LET position == fx.positions[pair_code]
                pips == exit_price - position.entry_price
                pnl == pips * FxPipValue * position.size_lots
            IN /\ fx' = [fx EXCEPT
                    !.capital = @ + pnl,
                    !.total_pnl = @ + pnl,
                    !.trade_history = Append(@,
                        [pair |-> pair_code, entry_price |-> position.entry_price,
                         exit_price |-> exit_price, size_lots |-> position.size_lots,
                         pips |-> pips, pnl |-> pnl, reason |-> reason]),
                    !.positions = DictDel(@, pair_code)]
               /\ last_call' = [op |-> "fx_close_position", key |-> pair_code, ok |-> TRUE]
    /\ UNCHANGED <<NotFx, fx_corr>>

\* PortfolioManager.update_correlation: new prices change what
\* CorrelationMonitor.calculate_correlation returns for the two pairs
fx_update_correlation(r) ==
    /\ engine = "fx"
    /\ fx_corr' = r
    /\ last_call' = [op |-> "fx_update_correlation", key |-> "", ok |-> TRUE]
    /\ UNCHANGED <<NotFx, fx>>

FxNext ==
    \/ \E c \in FxCodes, p \in FxPrices, z \in FxLots :
          fx_open_position(c, p, z, p - FxStopPips, [i \in 1..3 |-> p + FxTargetPips[i]])
    \/ \E c \in FxCodes, p \in FxPrices, r \in FxReasons : fx_close_position(c, p, r)
    \/ \E r \in FxCorrValues : fx_update_correlation(r)

(***************************************************************************)
(* snail_scalp.risk_manager                                                *)
(***************************************************************************)
TicksPerDay == 24                  \* one tick is one hour
PauseTicks == 24                   \* timedelta(hours=24)
T0 == 9                            \* the run starts at 09:00 of day 0
DailyLossLimit == 150              \* daily_loss_limit = 1.50
MaxConsecutiveLosses == 2          \* max_consecutive_losses
TradingStartUtc == 9               \* trading_start_utc
TradingEndUtc == 11                \* trading_end_utc
NoPause == -1                      \* paused_until = None

Today(t) == t \div TicksPerDay     \* str(date.today())
HourOf(t) == t % TicksPerDay       \* datetime.now().hour

\* RiskManager._new_day
new_day(t) ==
    [date |-> Today(t), trades_today |-> 0, wins |-> 0, losses |-> 0,
     pnl_usd |-> 0, consecutive_losses |-> 0, paused_until |-> NoPause]

\* RiskManager.can_trade_today: <<result, daily_stats afterwards>>
can_trade_today(ds, t) ==
    LET paused == ds.paused_until # NoPause /\ t < ds.paused_until
        ds1 == IF ds.paused_until # NoPause /\ ~paused
               THEN [ds EXCEPT !.paused_until = NoPause] ELSE ds
    IN IF paused THEN <<FALSE, ds>>
       ELSE IF ds1.pnl_usd <= -DailyLossLimit THEN <<FALSE, ds1>>
       ELSE IF ds1.consecutive_losses >= MaxConsecutiveLosses
            THEN <<FALSE, [ds1 EXCEPT !.paused_until = t + PauseTicks]>>
       ELSE <<TRUE, ds1>>

\* RiskManager.is_trading_window
is_trading_window(t) == TradingStartUtc <= HourOf(t) /\ HourOf(t) < TradingEndUtc

\* RiskManager.check_position_size, amounts in cents: available_capital * 0.15
check_position_size(available_capital, allocation, max_position) ==
    IF allocation \in {"primary", "dca"}
    THEN Min(max_position, (available_capital * 15) \div 100)
    ELSE 0

\* RiskManager.record_trade
record_trade(ds, pnl_usd) ==
    IF pnl_usd > 0
    THEN [ds EXCEPT !.trades_today = @ + 1, !.pnl_usd = @ + pnl_usd,
                    !.wins = @ + 1, !.consecutive_losses = 0]
    ELSE [ds EXCEPT !.trades_today = @ + 1, !.pnl_usd = @ + pnl_usd,
                    !.losses = @ + 1, !.consecutive_losses = @ + 1]

\* RiskManager._save_state: asdict(daily_stats) as the file
RmSaveState(ds) ==
    File([date |-> ds.date, trades_today |-> ds.trades_today, wins |-> ds.wins,
          losses |-> ds.losses, pnl_usd |-> ds.pnl_usd,
          consecutive_losses |-> ds.consecutive_losses,
          paused_until |-> ds.paused_until])

\* RiskManager._load_state at time t, for a file json.load can read
RmLoadState(f, t) ==
    IF f.kind = "absent" THEN new_day(t)
    ELSE IF f.data.date # Today(t) THEN new_day(t)
    ELSE [date |-> f.data.date, trades_today |-> f.data.trades_today,
          wins |-> f.data.wins, losses |-> f.data.losses,
          pnl_usd |-> f.data.pnl_usd,
          consecutive_losses |-> f.data.consecutive_losses,
          paused_until |-> f.data.paused_until]

\* the disk after a RiskManager call that took daily_stats from ds to ds2:
\* record_trade always changes and saves, can_trade_today saves where it
\* changes paused_until
RmSaved(d, ds, ds2) ==
    IF ds2 # ds THEN [d EXCEPT !.risk = RmSaveState(ds2)] ELSE d

(***************************************************************************)
(* snail_scalp.trader                                                      *)
(***************************************************************************)
SCALE == 10000                     \* stop prices are kept multiplied by SCALE
TrEntryPrices == {10000}           \* price at which an entry signal is seen (100.00)
TrPrices == {9900, 10005, 10150, 10250, 10400}   \* observed prices
TrAtrs == {0, 40}                  \* indicators.calculate_atr(), in price units
TrSizes == {450}                   \* size_usd before check_position_size, in cents
TrAvailableCapital == 2000         \* available_capital = 20.0

\* strategy configurations analysed; keys not listed keep the defaults of config.get
DefaultConfig ==
    [use_partial_scaling |-> TRUE, dca_allocation_ratio |-> 50,
     dca_trigger_percent |-> 100, use_time_exit |-> TRUE,
     max_hold_time |-> MaxHoldTime, use_trailing_stop |-> TRUE,
     trailing_update_interval |-> TrailingUpdateInterval,
     use_breakeven_stop |-> TRUE]
TrConfigs ==
    {DefaultConfig,
     [DefaultConfig EXCEPT !.dca_allocation_ratio = 40],
     [DefaultConfig EXCEPT !.use_partial_scaling = FALSE]}

PartialScaleLevels == <<<<25, 150>>, <<25, 250>>, <<25, 400>>>>  \* (portion %, profit bp)
TrailingStopBp == 100              \* trailing_stop_percent = 1.0
BreakevenBufferBp == 10            \* breakeven_buffer_percent = 0.1
StopLossMaxBp == 300               \* stop_loss_max_percent = 3.0
HardStopBp == 150                  \* entry_price * 0.985
AtrStopMultiplierPct == 150        \* stop_loss_atr_multiplier = 1.5
TpMinBp == 200                     \* tp_min_percent = 2.0
TpMaxBp == 800                     \* tp_max_percent = 8.0
Tp1Bp == 250                       \* tp1_percent = 2.5
Tp2Bp == 400                       \* tp2_percent = 4.0

NoPos == [status |-> "none"]
NoObs == [kind |-> "none", price |-> 0, stop |-> -1, trail_armed |-> FALSE,
          dca |-> FALSE, level |-> 0]

\* Trade(...) as built by Trader._execute_entry, with Trade.__post_init__
NewTrade(price, size_usd, t) ==
    [status |-> "open", entry_price |-> price, size_usd |-> size_usd,
     entry_time |-> t, dca_done |-> FALSE, tp1_hit |-> FALSE, pnl_usd |-> 0,
     highest_price |-> price, last_trailing_update |-> 0,
     breakeven_stop_price |-> 0,
     scale_levels_hit |-> [i \in 1..Len(PartialScaleLevels) |-> FALSE],
     final_position_size |-> size_usd]

\* (price - entry) / entry * size
TrPnl(price, entry, size) == ((price - entry) * size) \div entry

\* TechnicalIndicators.get_exit_levels(entry_price, use_atr=True,
\* max_stop_pct=...).stop, multiplied by SCALE; max_stop_pct in basis points
get_exit_levels_stop(entry_price, atr, max_stop_bp) ==
    IF atr > 0
    THEN Max(entry_price * SCALE - atr * AtrStopMultiplierPct * (SCALE \div 100),
             entry_price * (SCALE - max_stop_bp))
    ELSE entry_price * (SCALE - HardStopBp)

\* the stop Trader.manage_position asks for, with stop_loss_max_percent 3.0
ExitStop(entry, atr) == get_exit_levels_stop(entry, atr, StopLossMaxBp)

\* Trader.manage_position, DCA block: the position afterwards
DcaAvailable(p, dca_size) == check_position_size(p.size_usd * 3, "dca", dca_size)

AfterDca(p, entry, current_price) ==
    LET dca_size == (p.size_usd * cfg.dca_allocation_ratio) \div 100
        available == DcaAvailable(p, dca_size)
    IN IF (current_price - entry) * SCALE <= -cfg.dca_trigger_percent * entry
          /\ ~p.dca_done /\ available >= dca_size /\ dca_size > 0
       THEN [p EXCEPT !.size_usd = p.size_usd + dca_size,
                      !.entry_price = (entry * p.size_usd + current_price * dca_size)
                                      \div (p.size_usd + dca_size),
                      !.dca_done = TRUE]
       ELSE p

\* Trader.manage_position, breakeven block: the position afterwards
AfterBreakeven(p, entry, stop_price) ==
    LET breakeven_price == entry * (SCALE + BreakevenBufferBp)
    IN IF p.tp1_hit /\ cfg.use_breakeven_stop /\ p.breakeven_stop_price = 0
          /\ stop_price < breakeven_price
       THEN [p EXCEPT !.breakeven_stop_price = breakeven_price]
       ELSE p

\* a stop that ignores the breakeven stop
StopWithBreakeven_Ignored(p, stop_price) == stop_price

\* stop_price after "Use breakeven stop if set"
StopWithBreakeven(p, stop_price) ==
    IF p.breakeven_stop_price > 0 THEN Max(stop_price, p.breakeven_stop_price)
    ELSE stop_price

\* Trader.manage_position, trailing block: is the trailing stop re-evaluated now
TrailingDue(p, t) ==
    p.tp1_hit /\ cfg.use_trailing_stop
    /\ t - p.last_trailing_update >= cfg.trailing_update_interval

\* stop_price after the trailing block
StopWithTrailing(p, entry, stop_price, t) ==
    IF TrailingDue(p, t)
    THEN LET trailing_stop == p.highest_price * (SCALE - TrailingStopBp)
             min_stop == IF p.breakeven_stop_price > 0 THEN p.breakeven_stop_price
                         ELSE entry * SCALE
             effective_trailing == Max(trailing_stop, min_stop)
         IN IF effective_trailing > stop_price THEN effective_trailing ELSE stop_price
    ELSE stop_price

\* a scale loop that takes the highest level reached instead of the first
ScaleLevelReached_Highest(p, entry, current_price) ==
    LET S == {i \in 1..Len(PartialScaleLevels) :
                ~p.scale_levels_hit[i]
                /\ current_price * SCALE >= entry * (SCALE + PartialScaleLevels[i][2])}
    IN IF S = {} THEN 0 ELSE CHOOSE i \in S : \A j \in S : i >= j

\* first scale level not yet hit whose target the price has reached, 0 if none
ScaleLevelReached(p, entry, current_price) ==
    LET S == {i \in 1..Len(PartialScaleLevels) :
                ~p.scale_levels_hit[i]
                /\ current_price * SCALE >= entry * (SCALE + PartialScaleLevels[i][2])}
    IN IF S = {} THEN 0 ELSE CHOOSE i \in S : \A j \in S : i <= j

\* size closed by _partial_close(price, actual_portion) for a scale level
ScaleCloseSize(p, portion) ==
    LET close_size == (p.final_position_size * portion) \div 100
    IN IF p.size_usd > 0 THEN Min(close_size, p.size_usd) ELSE 0

\* Trader._partial_close on position p closing `size`: <<position, pnl>>
partial_close(p, price, size) ==
    LET pnl == TrPnl(price, p.entry_price, size)
    IN <<[p EXCEPT !.size_usd = @ - size, !.pnl_usd = @ + pnl, !.status = "partial"],
         pnl>>

\* the close reason Trader.manage_position records for a time-based exit
TimeExitReason == "manual"

\* Trader._close_position: the trade appended to trade_history (the fields
\* Trade.to_dict persists, without the timestamps)
closed_trade(p, price, reason) ==
    [entry_price |-> p.entry_price, size_usd |-> p.size_usd,
     dca_done |-> p.dca_done, tp1_hit |-> p.tp1_hit, status |-> "closed",
     exit_price |-> price, close_reason |-> reason,
     pnl_usd |-> p.pnl_usd + TrPnl(price, p.entry_price, p.size_usd)]

\* legacy TP1 / TP2 targets in basis points of entry
LegacyTpBp(entry, atr, mult, fallback) ==
    IF atr > 0
    THEN Max(Min((atr * mult * SCALE) \div entry, TpMaxBp), TpMinBp)
    ELSE fallback

\* Trade.to_dict
TradeToDict(t) ==
    [entry_price |-> t.entry_price, size_usd |-> t.size_usd,
     dca_done |-> t.dca_done, tp1_hit |-> t.tp1_hit, status |-> t.status,
     exit_price |-> t.exit_price, close_reason |-> t.close_reason,
     pnl_usd |-> t.pnl_usd]

\* Trader._save_history: the file it writes
TrSaveHistory(pnl, history) ==
    File([total_pnl |-> pnl, total_trades |-> Len(history),
          trades |-> [i \in 1..Len(history) |-> TradeToDict(history[i])]])

\* Trader.__init__ with _load_history: the file is read and counted, nothing
\* of it is kept
TrLoadHistory(f) == [active_position |-> NoPos, trade_history |-> <<>>, total_pnl |-> 0]

\* the disk after a Trader call: _save_history runs in _close_position only,
\* which is where trade_history grows
TrSaved(d, history, history2, pnl2) ==
    IF history2 # history THEN [d EXCEPT !.trades = TrSaveHistory(pnl2, history2)] ELSE d

\* a check_entry that does not look at the trading window
TrEntryAllowed_NoWindow(can, t, signal) == can /\ signal

\* the checks of check_entry after the active-position check: can_trade_today,
\* is_trading_window, then the regime, entry-signal and correlation checks
TrEntryAllowed(can, t, signal) == can /\ is_trading_window(t) /\ signal

\* Trader.check_entry with Trader._execute_entry; `signal` is what the regime,
\* entry-signal and correlation checks of the indicators decide
tr_check_entry(current_price, signal, size_usd) ==
    /\ engine = "trader" /\ proc.running
    /\ LET can == can_trade_today(daily_stats, now)
           size == check_position_size(TrAvailableCapital, "primary", size_usd)
       IN IF active_position # NoPos
          THEN /\ UNCHANGED <<active_position, daily_stats, obs>>
               /\ last_call' = [op |-> "check_entry", key |-> "", ok |-> FALSE]
          ELSE IF ~TrEntryAllowed(can[1], now, signal)
          THEN /\ daily_stats' = can[2]
               /\ UNCHANGED <<active_position, obs>>
               /\ last_call' = [op |-> "check_entry", key |-> "", ok |-> FALSE]
          ELSE /\ Len(trade_history) < MaxTraderTrades
               /\ daily_stats' = can[2]
               /\ active_position' = NewTrade(current_price, size, now)
               /\ obs' = NoObs
               /\ last_call' = [op |-> "check_entry", key |-> "", ok |-> TRUE]
    /\ disk' = RmSaved(disk, daily_stats, daily_stats')
    /\ UNCHANGED <<NotTr, now, cfg, trade_history, total_pnl, proc>>

\* Trader._close_position as the last step of manage_position
TrClose(p, price, reason, o) ==
    LET t == closed_trade(p, price, reason)
    IN /\ active_position' = NoPos
       /\ trade_history' = Append(trade_history, t)
       /\ total_pnl' = total_pnl + t.pnl_usd
       /\ daily_stats' = record_trade(daily_stats, t.pnl_usd)
       /\ obs' = o

\* the time exit of manage_position: held for max_hold_time or longer at time t
TimeExitDue(p, c, t) == c.use_time_exit /\ t - p.entry_time >= c.max_hold_time

\* Trader.manage_position
tr_manage_position(current_price, atr) ==
    /\ engine = "trader" /\ proc.running
    /\ active_position # NoPos
    /\ LET pos == active_position
           entry == pos.entry_price
           o0 == [NoObs EXCEPT !.price = current_price]
       IN IF TimeExitDue(pos, cfg, now)
          THEN TrClose(pos, current_price, TimeExitReason, [o0 EXCEPT !.kind = "time_exit"])
          ELSE
          LET p1 == AfterDca(pos, entry, current_price)
              p2 == [p1 EXCEPT !.highest_price = Max(@, current_price)]
              base == ExitStop(entry, atr)
              p3 == AfterBreakeven(p2, entry, base)
              stop1 == StopWithBreakeven(p3, base)
              stop_price == StopWithTrailing(p3, entry, stop1, now)
              p4 == IF TrailingDue(p3, now)
                    THEN [p3 EXCEPT !.last_trailing_update = now] ELSE p3
              o1 == [o0 EXCEPT !.stop = stop_price,
                               !.trail_armed = p4.tp1_hit /\ cfg.use_trailing_stop,
                               !.dca = p1.dca_done /\ ~pos.dca_done]
          IN IF current_price * SCALE <= stop_price
             THEN TrClose(p4, current_price, "stop_loss", [o1 EXCEPT !.kind = "stop"])
             ELSE IF cfg.use_partial_scaling
             THEN LET i == ScaleLevelReached(p4, entry, current_price)
                  IN IF i = 0
                     THEN /\ active_position' = p4
                          /\ obs' = [o1 EXCEPT !.kind = "hold"]
                          /\ UNCHANGED <<trade_history, total_pnl, daily_stats>>
                     ELSE LET r == partial_close(p4, current_price,
                                       ScaleCloseSize(p4, PartialScaleLevels[i][1]))
                              p5 == [r[1] EXCEPT
                                       !.scale_levels_hit[i] = TRUE,
                                       !.tp1_hit = IF i = Len(PartialScaleLevels)
                                                   THEN TRUE ELSE @]
                          IN /\ active_position' = p5
                             /\ total_pnl' = total_pnl + r[2]
                             /\ daily_stats' = record_trade(daily_stats, r[2])
                             /\ obs' = [o1 EXCEPT !.kind = "scale", !.level = i]
                             /\ UNCHANGED trade_history
             ELSE LET tp1 == LegacyTpBp(entry, atr, 1, Tp1Bp)
                      tp2 == LegacyTpBp(entry, atr, 2, Tp2Bp)
                      hit1 == current_price * SCALE >= entry * (SCALE + tp1) /\ ~p4.tp1_hit
                      r == partial_close(p4, current_price, p4.size_usd \div 2)
                      p5 == IF hit1 THEN [r[1] EXCEPT !.tp1_hit = TRUE] ELSE p4
                      pnl1 == IF hit1 THEN r[2] ELSE 0
                      ds1 == IF hit1 THEN record_trade(daily_stats, pnl1) ELSE daily_stats
                      o2 == [o1 EXCEPT !.level = IF hit1 THEN 1 ELSE 0]
                  IN IF current_price * SCALE >= entry * (SCALE + tp2) /\ p5.tp1_hit
                     THEN LET t == closed_trade(p5, current_price, "tp2")
                          IN /\ active_position' = NoPos
                             /\ trade_history' = Append(trade_history, t)
                             /\ total_pnl' = total_pnl + pnl1 + t.pnl_usd
                             /\ daily_stats' = record_trade(ds1, t.pnl_usd)
                             /\ obs' = [o2 EXCEPT !.kind = "tp2"]
                     ELSE /\ active_position' = p5
                          /\ total_pnl' = total_pnl + pnl1
                          /\ daily_stats' = ds1
                          /\ obs' = [o2 EXCEPT !.kind = IF hit1 THEN "tp1" ELSE "hold"]
                          /\ UNCHANGED trade_history
    /\ last_call' = [op |-> "manage_position", key |-> "", ok |-> TRUE]
    /\ disk' = TrSaved(RmSaved(disk, daily_stats, daily_stats'),
                        trade_history, trade_history', total_pnl')
    /\ UNCHANGED <<NotTr, now, cfg, proc>>

\* the wall clock advances by one tick
tr_tick ==
    /\ engine = "trader"
    /\ now < T0 + MaxTraderTicks
    /\ now' = now + 1
    /\ UNCHANGED <<NotTr, trVars, daily_stats, disk, proc, last_call>>

\* the process ends between two observations and the driver constructs a new
\* RiskManager and a new Trader on the same files; RiskManager._load_state
\* lets the error of a file json.load cannot read escape, so nothing starts
tr_restart ==
    /\ engine = "trader"
    /\ proc.restarts < MaxRestarts
    /\ IF disk.risk.kind = "torn"
       THEN /\ proc' = [running |-> FALSE, restarts |-> proc.restarts + 1]
            /\ last_call' = [op |-> "restart", key |-> "", ok |-> FALSE]
            /\ UNCHANGED <<trVars, daily_stats>>
       ELSE LET loaded == TrLoadHistory(disk.trades)
            IN /\ daily_stats' = RmLoadState(disk.risk, now)
               /\ active_position' = loaded.active_position
               /\ trade_history' = loaded.trade_history
               /\ total_pnl' = loaded.total_pnl
               /\ obs' = NoObs
               /\ proc' = Restarted(proc)
               /\ last_call' = [op |-> "restart", key |-> "", ok |-> TRUE]
               /\ UNCHANGED cfg
    /\ UNCHANGED <<NotTr, now, disk>>

\* the process is stopped inside RiskManager._save_state or
\* Trader._save_history while a position is being closed
tr_stop_in_save(file) ==
    /\ engine = "trader" /\ proc.running
    /\ active_position # NoPos
    /\ disk' = [disk EXCEPT ![file] = TornFile]
    /\ proc' = [proc EXCEPT !.running = FALSE]
    /\ last_call' = [op |-> "stop_in_save", key |-> file, ok |-> FALSE]
    /\ UNCHANGED <<NotTr, trVars, rmVars>>

TrProcNext == tr_restart \/ \E f \in {"risk", "trades"} : tr_stop_in_save(f)

TrNext ==
    \/ \E p \in TrEntryPrices, g \in BOOLEAN, z \in TrSizes : tr_check_entry(p, g, z)
    \/ \E p \in TrPrices, a \in TrAtrs : tr_manage_position(p, a)
    \/ tr_tick

(***************************************************************************)
(* RiskManager driven directly through its public methods                  *)
(***************************************************************************)
RmPnls == {-150, -50, 100}         \* pnl_usd passed to record_trade, in cents
RmTickHours == 6                   \* hours between two looks at the clock

\* RiskManager.can_trade_today()
rm_can_trade_today ==
    /\ engine = "risk" /\ proc.running
    /\ LET can == can_trade_today(daily_stats, now)
       IN /\ daily_stats' = can[2]
          /\ last_call' = [op |-> "can_trade_today", key |-> "", ok |-> can[1]]
    /\ disk' = RmSaved(disk, daily_stats, daily_stats')
    /\ UNCHANGED <<NotTr, trVars, now, proc>>

\* RiskManager.record_trade(pnl_usd)
rm_record_trade(pnl_usd) ==
    /\ engine = "risk" /\ proc.running
    /\ daily_stats.trades_today < MaxRiskTrades
    /\ daily_stats' = record_trade(daily_stats, pnl_usd)
    /\ last_call' = [op |-> "record_trade", key |-> "", ok |-> TRUE]
    /\ disk' = RmSaved(disk, daily_stats, daily_stats')
    /\ UNCHANGED <<NotTr, trVars, now, proc>>

\* the wall clock advances
rm_tick ==
    /\ engine = "risk"
    /\ now + RmTickHours <= T0 + MaxRiskTicks * RmTickHours
    /\ now' = now + RmTickHours
    /\ UNCHANGED <<NotTr, trVars, daily_stats, disk, proc, last_call>>

\* the process ends between two calls and a new RiskManager is constructed
\* on the same state file
rm_restart ==
    /\ engine = "risk"
    /\ proc.restarts < MaxRestarts
    /\ IF disk.risk.kind = "torn"
       THEN /\ proc' = [running |-> FALSE, restarts |-> proc.restarts + 1]
            /\ last_call' = [op |-> "restart", key |-> "", ok |-> FALSE]
            /\ UNCHANGED daily_stats
       ELSE /\ daily_stats' = RmLoadState(disk.risk, now)
            /\ proc' = Restarted(proc)
            /\ last_call' = [op |-> "restart", key |-> "", ok |-> TRUE]
    /\ UNCHANGED <<NotTr, trVars, now, disk>>

\* the process is stopped inside _save_state of a record_trade
rm_stop_in_save ==
    /\ engine = "risk" /\ proc.running
    /\ daily_stats.trades_today < MaxRiskTrades
    /\ disk' = [disk EXCEPT !.risk = TornFile]
    /\ proc' = [proc EXCEPT !.running = FALSE]
    /\ last_call' = [op |-> "stop_in_save", key |-> "risk", ok |-> FALSE]
    /\ UNCHANGED <<NotTr, trVars, rmVars>>

RmProcNext == rm_restart \/ rm_stop_in_save

RmNext ==
    \/ rm_can_trade_today
    \/ \E x \in RmPnls : rm_record_trade(x)
    \/ rm_tick

(***************************************************************************)
(* forex_bot.strategy.backtest                                             *)
(***************************************************************************)
BtEntryPrices == {13500}           \* Close of a bar with an entry signal, in pips
BtPrices == {13470, 13500, 13525, 13550, 13580}   \* Close of a bar, in pips
BtAtrs == {0, 20}                  \* ForexIndicators.calculate_atr(), in pips
BtBarHours == {1, 24}              \* hours from one bar to the next

BtInitialCapital == 100000         \* initial_capital = 1000.0
BtRiskPct == 2                     \* risk_per_trade_pct = 2.0
BtPipValueMilli == 74              \* pip_value_usd 0.074: tenths of a cent per pip
BtTargetPips == <<25, 50, 80>>     \* USD_SGD target_pips
BtStopPips == 25                   \* USD_SGD stop_pips
BtMaxHoldHours == 48               \* USD_SGD max_hold_hours
BtAtrMultiplierPct == 150          \* atr_multiplier = 1.5
BtUnitsPerPip == 10000             \* 1 / pip_size

NoTrade == [status |-> "none"]

\* x / y rounded to the nearest integer, x >= 0, y > 0
RoundDiv(x, y) == (2 * x + y) \div (2 * y)

\* ForexIndicators.get_exit_levels: stop and targets in pips; calculate_atr
\* returns the ATR in pips
BtExitLevels(entry_price, atr) ==
    LET dynamic_stop_pips == Max(BtStopPips, (atr * BtAtrMultiplierPct) \div 100)
    IN [stop |-> entry_price - dynamic_stop_pips,
        targets |-> [i \in 1..Len(BtTargetPips) |-> entry_price + BtTargetPips[i]]]

\* PositionSizer.calculate(...).lots, in micro lots; 0 stands for the
\* ValueError of a zero stop distance, which opens nothing either
BtPositionSize(capital, entry_price, stop_price) ==
    LET stop_pips == Abs(entry_price - stop_price)
        risk_amount == capital * BtRiskPct          \* cents x 100
    IN IF stop_pips = 0 \/ capital <= 0 THEN 0
       ELSE RoundDiv(risk_amount * 10, stop_pips * BtPipValueMilli * 100)

BtInitState ==
    [capital |-> BtInitialCapital, active_trade |-> NoTrade, trades |-> <<>>,
     total_pips |-> 0, max_capital |-> BtInitialCapital, max_drawdown |-> 0,
     time |-> 0, bars |-> 0, last_close |-> 0, finished |-> FALSE]

\* ForexBacktest._close_trade on state b
BtCloseTrade(b, trade, exit_time, exit_price, reason) ==
    LET pips == exit_price - trade.entry_price
        pnl_usd == (pips * BtPipValueMilli * trade.size_lots) \div 10
        capital == b.capital + pnl_usd
        max_capital == Max(b.max_capital, capital)
        closed == [trade EXCEPT !.status = "closed"]
                  @@ [exit_time |-> exit_time, exit_price |-> exit_price,
                      close_reason |-> reason, pips |-> pips, pnl_usd |-> pnl_usd]
    IN [b EXCEPT !.capital = capital,
                 !.max_capital = max_capital,
                 !.max_drawdown = Max(@, max_capital - capital),
                 !.trades = Append(@, closed),
                 !.total_pips = @ + pips,
                 !.active_trade = NoTrade]

\* the targets loop of ForexBacktest._manage_position from level i on:
\* <<trade, closed by TP3>>
RECURSIVE BtTargetsFrom(_, _, _)
BtTargetsFrom(trade, current_price, i) ==
    IF i > Len(trade.targets) THEN <<trade, FALSE>>
    ELSE IF ~trade.scale_levels_hit[i] /\ current_price >= trade.targets[i]
    THEN LET t1 == [trade EXCEPT !.scale_levels_hit[i] = TRUE]
             t2 == IF i = 1
                   THEN [t1 EXCEPT !.tp1_hit = TRUE,
                                   !.stop_price = Max(t1.stop_price, t1.entry_price)]
                   ELSE IF i = 2 THEN [t1 EXCEPT !.tp2_hit = TRUE]
                   ELSE IF i = 3 THEN [t1 EXCEPT !.tp3_hit = TRUE]
                   ELSE t1
         IN IF i = 3 THEN <<t2, TRUE>>
            ELSE BtTargetsFrom(t2, current_price, i + 1)
    ELSE BtTargetsFrom(trade, current_price, i + 1)

\* a _manage_position that looks at the stop before the hold time
bt_manage_position_StopFirst(b, current_time, current_price) ==
    LET trade == b.active_trade
        hours_held == current_time - trade.entry_time
    IN IF current_price <= trade.stop_price
       THEN BtCloseTrade(b, trade, current_time, current_price, "stop_loss")
       ELSE IF hours_held >= BtMaxHoldHours
       THEN BtCloseTrade(b, trade, current_time, current_price, "time_exit")
       ELSE LET r == BtTargetsFrom(trade, current_price, 1)
            IN IF r[2]
               THEN BtCloseTrade(b, r[1], current_time, current_price, "tp3")
               ELSE [b EXCEPT !.active_trade = r[1]]

\* ForexBacktest._manage_position on state b
bt_manage_position(b, current_time, current_price) ==
    LET trade == b.active_trade
        hours_held == current_time - trade.entry_time
    IN IF hours_held >= BtMaxHoldHours
       THEN BtCloseTrade(b, trade, current_time, current_price, "time_exit")
       ELSE IF current_price <= trade.stop_price
       THEN BtCloseTrade(b, trade, current_time, current_price, "stop_loss")
       ELSE LET r == BtTargetsFrom(trade, current_price, 1)
            IN IF r[2]
               THEN BtCloseTrade(b, r[1], current_time, current_price, "tp3")
               ELSE [b EXCEPT !.active_trade = r[1]]

\* ForexBacktest._check_entry on state b; `signal` is what is_ranging_market
\* and check_entry_signal decide
bt_check_entry(b, current_time, current_price, signal, atr) ==
    LET levels == BtExitLevels(current_price, atr)
        size_lots == BtPositionSize(b.capital, current_price, levels.stop)
    IN IF ~signal \/ size_lots <= 0 THEN b
       ELSE [b EXCEPT !.active_trade =
               [status |-> "open", entry_time |-> current_time,
                entry_price |-> current_price, size_lots |-> size_lots,
                stop_price |-> levels.stop, targets |-> levels.targets,
                tp1_hit |-> FALSE, tp2_hit |-> FALSE, tp3_hit |-> FALSE,
                scale_levels_hit |-> [i \in 1..Len(levels.targets) |-> FALSE]]]

\* one iteration of the loop of ForexBacktest.run
bt_bar(dt, current_price, signal, atr) ==
    /\ engine = "bt"
    /\ ~bt.finished
    /\ bt.bars < MaxBars
    /\ bt.active_trade # NoTrade \/ current_price \in BtEntryPrices
    /\ LET current_time == bt.time + dt
           b0 == [bt EXCEPT !.time = current_time, !.bars = @ + 1,
                            !.last_close = current_price]
       IN bt' = IF bt.active_trade # NoTrade
                THEN bt_manage_position(b0, current_time, current_price)
                ELSE bt_check_entry(b0, current_time, current_price, signal, atr)
    /\ last_call' = [op |-> "bt_bar", key |-> "", ok |-> TRUE]
    /\ UNCHANGED NotBt

\* the end of ForexBacktest.run: an open trade is closed at the last Close
bt_finish ==
    /\ engine = "bt"
    /\ ~bt.finished
    /\ bt.bars > 0
    /\ bt' = [(IF bt.active_trade # NoTrade
               THEN BtCloseTrade(bt, bt.active_trade, bt.time, bt.last_close, "time_exit")
               ELSE bt) EXCEPT !.finished = TRUE]
    /\ last_call' = [op |-> "bt_finish", key |-> "", ok |-> TRUE]
    /\ UNCHANGED NotBt

BtNext ==
    \/ \E dt \in BtBarHours, p \in BtPrices, g \in BOOLEAN, a \in BtAtrs : bt_bar(dt, p, g, a)
    \/ bt_finish

(***************************************************************************)
(* snail_scalp.correlation_tracker and the correlation check of            *)
(* Trader.check_entry                                                      *)
(***************************************************************************)
CtSymbols == {"SOL", "BONK", "WIF"}     \* tokens with a price history
CtCorrValues == {0, 70, 90, -90}        \* Pearson coefficient of two tokens, x100
CtThreshold == 70                       \* threshold = 0.7
CtMaxCorrelated == 2                    \* max_correlated_positions

CtPairs == {{a, b} : a, b \in CtSymbols} \ {{a} : a \in CtSymbols}

\* CorrelationTracker.calculate_correlation, for two tokens with enough history
calculate_correlation(t, symbol1, symbol2) == t[{symbol1, symbol2}]

\* CorrelationTracker.get_correlated_tokens, as the set of the symbols listed
get_correlated_tokens(t, symbol, active_symbols) ==
    {o \in active_symbols \ {symbol} :
        Abs(calculate_correlation(t, symbol, o)) >= CtThreshold}

\* CorrelationTracker.check_correlation_risk: allowed
check_correlation_risk(t, symbol, active_symbols, max_correlated) ==
    ~(Cardinality(get_correlated_tokens(t, symbol, active_symbols)) >= max_correlated)

\* the correlation check of Trader.check_entry on an entry signal for
\* `symbol`: ok means the entry goes on to _execute_entry
ct_check_entry(symbol, active_symbols) ==
    /\ engine = "corr"
    /\ LET allowed == IF active_symbols # {}
                      THEN check_correlation_risk(tracker, symbol, active_symbols,
                                                  CtMaxCorrelated)
                      ELSE TRUE
       IN last_call' = [op |-> "check_entry_correlation", key |-> symbol,
                        ok |-> allowed, active |-> active_symbols]
    /\ UNCHANGED <<NotCt, tracker>>

\* CorrelationTracker.add_price: new prices move the coefficient of a pair
ct_add_price(pair, r) ==
    /\ engine = "corr"
    /\ tracker' = [tracker EXCEPT ![pair] = r]
    /\ last_call' = [op |-> "add_price", key |-> "", ok |-> TRUE]
    /\ UNCHANGED NotCt

CtNext ==
    \/ \E s \in CtSymbols, a \in SUBSET CtSymbols : ct_check_entry(s, a \ {s})
    \/ \E q \in CtPairs, r \in CtCorrValues : ct_add_price(q, r)

(***************************************************************************)
(* forex_bot.risk.weekend_protection and forex_bot.risk.session_manager    *)
(* A datetime is a minute of the week, Monday 00:00 being minute 0, with   *)
(* its tzinfo; a time of day is a minute of the day.                       *)
(***************************************************************************)
MinutesPerHour == 60
MinutesPerDay == 1440
WkDays == {0, 3, 4, 5, 6}                \* datetime.weekday(), Monday = 0
WkHours == {0, 17, 18, 19, 20, 21, 22}
WkMinutes == {0, 59}
WkTimes == {d * MinutesPerDay + h * MinutesPerHour + m :
               d \in WkDays, h \in WkHours, m \in WkMinutes}
WkZones == {"naive", "UTC"}              \* tzinfo of the datetime passed
SmHours == 0..23
SmMinutes == {0, 30, 59}
SmTimes == {h * MinutesPerHour + m : h \in SmHours, m \in SmMinutes}
SmZones == {"naive", "UTC", "+08:00"}    \* tzinfo of the datetime passed
NoCheck == -1                            \* last_weekend_check = None

Weekday(t) == t \div MinutesPerDay       \* current_time.weekday()
TimeOf(t) == t % MinutesPerDay           \* current_time.time()
TimeHM(h, m) == h * MinutesPerHour + m   \* time(h, m)
\* current_time.replace(tzinfo=None): the clock reading is kept as it is
ReplaceTzinfoNone(dt) == dt.clock

FRIDAY_ENTRY_CUTOFF == TimeHM(18, 0)
FRIDAY_POSITION_CLOSE == TimeHM(20, 0)
SUNDAY_TRADING_RESUME == TimeHM(22, 0)

\* WeekendGapProtection.is_trading_allowed: <<result, attributes afterwards>>
is_trading_allowed(w, dt) ==
    LET t == ReplaceTzinfoNone(dt)
        closed == [w EXCEPT !.closed_due_to_weekend = TRUE]
    IN IF Weekday(t) = 4 /\ TimeOf(t) >= FRIDAY_POSITION_CLOSE THEN <<FALSE, closed>>
       ELSE IF Weekday(t) = 5 THEN <<FALSE, closed>>
       ELSE IF Weekday(t) = 6 /\ TimeOf(t) < SUNDAY_TRADING_RESUME THEN <<FALSE, closed>>
       ELSE <<TRUE, [closed_due_to_weekend |-> FALSE, last_weekend_check |-> t]>>

\* an is_entry_allowed that does not ask is_trading_allowed first
is_entry_allowed_FridayOnly(w, dt) ==
    LET t == ReplaceTzinfoNone(dt)
    IN IF Weekday(t) = 4 /\ TimeOf(t) >= FRIDAY_ENTRY_CUTOFF
       THEN <<FALSE, w>> ELSE <<TRUE, w>>

\* WeekendGapProtection.is_entry_allowed: <<result, attributes afterwards>>
is_entry_allowed(w, dt) ==
    LET t == ReplaceTzinfoNone(dt)
        trading == is_trading_allowed(w, dt)
    IN IF ~trading[1] THEN <<FALSE, trading[2]>>
       ELSE IF Weekday(t) = 4 /\ TimeOf(t) >= FRIDAY_ENTRY_CUTOFF
            THEN <<FALSE, trading[2]>>
       ELSE <<TRUE, trading[2]>>

\* SessionManager._is_time_in_range
is_time_in_range(check_time, start, end) ==
    IF start < end THEN start <= check_time /\ check_time < end
    ELSE check_time >= start \/ check_time < end

\* a get_current_session that tries LONDON before ASIAN
get_current_session_LondonFirst(dt) ==
    LET c == TimeOf(ReplaceTzinfoNone(dt))
    IN IF is_time_in_range(c, TimeHM(13, 0), TimeHM(17, 0)) THEN "overlap"
       ELSE IF is_time_in_range(c, TimeHM(8, 0), TimeHM(13, 0)) THEN "london"
       ELSE IF is_time_in_range(c, TimeHM(0, 0), TimeHM(9, 0)) THEN "asian"
       ELSE IF is_time_in_range(c, TimeHM(17, 0), TimeHM(22, 0)) THEN "new_york"
       ELSE "asian"

\* SessionManager.get_current_session
get_current_session(dt) ==
    LET c == TimeOf(ReplaceTzinfoNone(dt))
    IN IF is_time_in_range(c, TimeHM(13, 0), TimeHM(17, 0)) THEN "overlap"
       ELSE IF is_time_in_range(c, TimeHM(0, 0), TimeHM(9, 0)) THEN "asian"
       ELSE IF is_time_in_range(c, TimeHM(8, 0), TimeHM(13, 0)) THEN "london"
       ELSE IF is_time_in_range(c, TimeHM(17, 0), TimeHM(22, 0)) THEN "new_york"
       ELSE "asian"

\* WeekendGapProtection.is_trading_allowed(current_time)
cal_is_trading_allowed(dt) ==
    /\ engine = "weekend"
    /\ LET r == is_trading_allowed(weekend, dt)
       IN /\ weekend' = r[2]
          /\ last_call' = [op |-> "is_trading_allowed", key |-> "", ok |-> r[1], dt |-> dt]
    /\ UNCHANGED NotCal

\* WeekendGapProtection.is_entry_allowed(current_time)
cal_is_entry_allowed(dt) ==
    /\ engine = "weekend"
    /\ LET r == is_entry_allowed(weekend, dt)
       IN /\ weekend' = r[2]
          /\ last_call' = [op |-> "is_entry_allowed", key |-> "", ok |-> r[1], dt |-> dt]
    /\ UNCHANGED NotCal

\* SessionManager.get_current_session(current_time); key is the session
cal_get_current_session(dt) ==
    /\ engine = "session"
    /\ last_call' = [op |-> "get_current_session", key |-> get_current_session(dt),
                     ok |-> TRUE, dt |-> dt]
    /\ UNCHANGED <<NotCal, weekend>>

CalNext ==
    \/ \E t \in WkTimes, z \in WkZones :
          \/ cal_is_trading_allowed([clock |-> t, tzinfo |-> z])
          \/ cal_is_entry_allowed([clock |-> t, tzinfo |-> z])
    \/ \E t \in SmTimes, z \in SmZones :
          cal_get_current_session([clock |-> t, tzinfo |-> z])

(***************************************************************************)
(* forex_bot.portfolio_sizer and forex_bot.strategy.position_sizing: the   *)
(* two position-size calculations, applied to arguments the callers choose *)
(***************************************************************************)
SzCapitals == {500, 1000}          \* capital / account_balance, in USD
SzRiskPcts == {2, 5}               \* base_risk_pct
SzStopPips == {-25, 0, 25, 50}     \* stop_pips
SzPerformanceMults == {8, 10, 12}  \* get_performance_multiplier(), in tenths
SzVolatilityMults == {5, 10, 20}   \* get_volatility_multiplier(), in tenths
SzKellyMults == {5, 10, 20}        \* kelly_mult, in tenths
SzStopOffsets == {-25, 0, 25}      \* stop_price - entry_price, in pips
SzMaxPortfolioHeatPct == 10        \* SizingConfig.max_portfolio_heat = 0.10

\* what a call comes back with: a returned size, or an exception that
\* propagates to the caller
Returned(lots) == [kind |-> "return", lots |-> lots]
Raised(exc) == [kind |-> "raise", exc |-> exc]

\* round(n / d) for d # 0, in hundredths of a lot (= micro lots)
SzRound(n, d) ==
    IF (n >= 0) = (d > 0) THEN RoundDiv(Abs(n), Abs(d)) ELSE 0 - RoundDiv(Abs(n), Abs(d))

\* PortfolioSizer.calculate_position_size with pip_value 0.074; the three
\* multipliers are what the sizer's trade and return history make them
calculate_position_size(base_risk_pct, capital, stop_pips, performance_mult, volatility_mult, kelly_mult) ==
    IF stop_pips = 0 THEN Raised("ZeroDivisionError")
    ELSE LET mult == performance_mult * volatility_mult * kelly_mult  \* thousandths
             \* adjusted_micro_lots = n / d
             n == capital * base_risk_pct * mult
             d == 100 * stop_pips * BtPipValueMilli
             \* total_risk = adjusted_micro_lots * stop_pips * pip_value, x 100000
             total_risk == capital * base_risk_pct * mult
         IN IF total_risk > capital * SzMaxPortfolioHeatPct * 1000
            THEN Returned(SzRound(capital * SzMaxPortfolioHeatPct * 10,
                                  stop_pips * BtPipValueMilli))
            ELSE Returned(SzRound(n, d))

\* PositionSizer.calculate at risk_per_trade_pct 2.0 and pip_value 0.074
calculate(account_balance, entry_price, stop_price) ==
    IF Abs(entry_price - stop_price) = 0 THEN Raised("ValueError")
    ELSE Returned(BtPositionSize(account_balance * 100, entry_price, stop_price))

sz_calculate_position_size(base_risk_pct, capital, stop_pips, pm_, vm, km) ==
    /\ engine = "fn"
    /\ LET out == calculate_position_size(base_risk_pct, capital, stop_pips, pm_, vm, km)
       IN last_call' = [op |-> "calculate_position_size", key |-> out.kind,
                        ok |-> out.kind = "return", out |-> out,
                        args |-> <<base_risk_pct, capital, stop_pips, pm_, vm, km>>]
    /\ UNCHANGED NotFn

sz_calculate(account_balance, entry_price, stop_price) ==
    /\ engine = "fn"
    /\ LET out == calculate(account_balance, entry_price, stop_price)
       IN last_call' = [op |-> "calculate", key |-> out.kind,
                        ok |-> out.kind = "return", out |-> out,
                        args |-> <<account_balance, entry_price, stop_price>>]
    /\ UNCHANGED NotFn

SzNext ==
    \/ \E r \in SzRiskPcts, c \in SzCapitals, sp \in SzStopPips,
          p \in SzPerformanceMults, v \in SzVolatilityMults, k \in SzKellyMults :
          sz_calculate_position_size(r, c, sp, p, v, k)
    \/ \E c \in SzCapitals, e \in BtEntryPrices, o \in SzStopOffsets :
          sz_calculate(c, e, e + o)

(***************************************************************************)
(* get_exit_levels of snail_scalp.indicators and of                        *)
(* forex_bot.strategy.indicators, applied to arguments the callers choose  *)
(***************************************************************************)
LvEntryPrices == {10000, 20000}    \* entry_price, snail_scalp (100.00, 200.00)
LvAtrs == {0, 40, 100, 400}        \* calculate_atr(), in price units; 0: not available
LvMaxStopBps == {100, 300}         \* max_stop_pct 1.0, 3.0
LvFxAtrs == {0, 10, 20}            \* ForexIndicators.calculate_atr(), in pips

lv_get_exit_levels(entry_price, atr, max_stop_bp) ==
    /\ engine = "fn"
    /\ last_call' = [op |-> "get_exit_levels", key |-> "snail_scalp", ok |-> TRUE,
                     out |-> get_exit_levels_stop(entry_price, atr, max_stop_bp),
                     args |-> <<entry_price, atr, max_stop_bp>>]
    /\ UNCHANGED NotFn

lv_fx_get_exit_levels(entry_price, atr) ==
    /\ engine = "fn"
    /\ last_call' = [op |-> "get_exit_levels", key |-> "forex_bot", ok |-> TRUE,
                     out |-> BtExitLevels(entry_price, atr).stop,
                     args |-> <<entry_price, atr, BtStopPips>>]
    /\ UNCHANGED NotFn

LvNext ==
    \/ \E e \in LvEntryPrices, a \in LvAtrs, c \in LvMaxStopBps :
          lv_get_exit_levels(e, a, c)
    \/ \E e \in BtPrices, a \in LvFxAtrs : lv_fx_get_exit_levels(e, a)

FnNext == SzNext \/ LvNext

(***************************************************************************)
(* Specifications                                                          *)
(***************************************************************************)
\* the state after construction, the RiskManager having loaded the counters
\* ds from the state file d.risk
InitWith(ds, d) ==
    /\ engine \in {"pm", "fx", "trader", "risk", "bt", "corr", "weekend", "session",
                   "fn"}
    /\ pm = PmInitState
    /\ pm_max_positions \in (IF engine = "pm" THEN PmMaxPositionsChoices
                                              ELSE {PmMaxConcurrent})
    /\ \E m \in (IF engine = "fx" THEN FxMaxPositionsChoices ELSE {2}) :
          fx = FxInitState(m)
    /\ fx_corr = FxNoCorr
    /\ now = T0
    /\ cfg \in (IF engine = "trader" THEN TrConfigs ELSE {DefaultConfig})
    /\ active_position = NoPos
    /\ trade_history = <<>>
    /\ total_pnl = 0
    /\ daily_stats = ds
    /\ obs = NoObs
    /\ bt = BtInitState
    /\ tracker = [q \in CtPairs |-> 0]
    /\ weekend = [closed_due_to_weekend |-> FALSE, last_weekend_check |-> NoCheck]
    /\ disk = d
    /\ proc = FirstRun
    /\ last_call = NoCall

\* no state file exists: RiskManager._load_state starts a new day
Init == InitWith(new_day(T0), NoDisk)

Next ==
    \/ PmNext \/ FxNext \/ TrNext \/ RmNext \/ BtNext \/ CtNext \/ CalNext
    \/ PmProcNext \/ TrProcNext \/ RmProcNext
    \/ FnNext

Spec == Init /\ [][Next]_vars

\* one component at a time
InitPm == Init /\ engine = "pm"
SpecPm == InitPm /\ [][PmNext]_vars

InitFx == Init /\ engine = "fx"
SpecFx == InitFx /\ [][FxNext]_vars

InitTr == Init /\ engine = "trader"
SpecTr == InitTr /\ [][TrNext]_vars

\* a Trader started on the risk state file of an earlier run of the same day,
\* which recorded nothing or one losing trade
TrEarlierLoss == -3
TrLoadedStats == {new_day(T0), record_trade(new_day(T0), TrEarlierLoss)}
InitTrLoaded ==
    /\ \E ds \in TrLoadedStats :
          InitWith(RmLoadState(RmSaveState(ds), T0),
                   IF ds = new_day(T0) THEN NoDisk
                   ELSE [NoDisk EXCEPT !.risk = RmSaveState(ds)])
    /\ engine = "trader"
    /\ cfg = DefaultConfig
SpecTrLoaded == InitTrLoaded /\ [][TrNext]_vars

InitRm == Init /\ engine = "risk"
SpecRm == InitRm /\ [][RmNext]_vars

InitBt == Init /\ engine = "bt"
SpecBt == InitBt /\ [][BtNext]_vars

\* one component with the process ending, in a save or between two calls, and
\* starting again on its state files
SpecPmDisk == InitPm /\ [][PmNext \/ PmProcNext]_vars
InitTrDisk == InitTr /\ cfg = DefaultConfig
SpecTrDisk == InitTrDisk /\ [][TrNext \/ TrProcNext]_vars
SpecRmDisk == InitRm /\ [][RmNext \/ RmProcNext]_vars
InitDisk == InitPm \/ InitTrDisk \/ InitRm
SpecDisk ==
    InitDisk /\ [][PmNext \/ PmProcNext \/ TrNext \/ TrProcNext
                     \/ RmNext \/ RmProcNext]_vars

\* the weekend gate and the session clock
InitCal == Init /\ engine \in {"weekend", "session"}
SpecCal == InitCal /\ [][CalNext]_vars

\* the position-size and exit-level calculations
InitFn == Init /\ engine = "fn"
SpecFn == InitFn /\ [][FnNext]_vars

\* the two correlation gates
InitCorr == Init /\ engine \in {"fx", "corr"}
SpecCorr == InitCorr /\ [][FxNext \/ CtNext]_vars

\* the two position state machines
InitTrBt == Init /\ engine \in {"trader", "bt"}
SpecTrBt == InitTrBt /\ [][TrNext \/ BtNext]_vars

\* the two portfolio managers
InitPmFx == Init /\ engine \in {"pm", "fx"}
SpecPmFx == InitPmFx /\ [][PmNext \/ FxNext]_vars

(***************************************************************************)
(* Properties                                                              *)
(***************************************************************************)

\* sum of size_usd over the OPEN / PARTIAL positions
PmOpenSize(st) ==
    SumOver([s \in DOMAIN st.positions |-> st.positions[s].size_usd],
            {s \in DOMAIN st.positions : st.positions[s].status \in PmOpenStatuses})

\* C1 (I2, capital conservation): after every open_position, execute_dca,
\* partial_close and close_position call, accepted or rejected,
\* available_capital plus the sizes of the OPEN/PARTIAL positions equals
\* initial_capital plus total_realized_pnl.
C1_CapitalConservation ==
    pm.available_capital + PmOpenSize(pm) = pm.initial_capital + pm.total_realized_pnl

\* a position was DCA'd, partially closed and closed with a realized profit or
\* loss while another one is open, and the last call was rejected
C1_Witness ==
    /\ engine = "pm"
    /\ pm.total_realized_pnl # 0
    /\ \E i \in 1..Len(pm.closed_positions) :
          pm.closed_positions[i].dca_done /\ pm.closed_positions[i].tp1_hit
    /\ \E s \in DOMAIN pm.positions : pm.positions[s].status = "partial"
    /\ last_call.op # "none" /\ ~last_call.ok

\* C2 (I1, one position per instrument), both portfolio managers: every
\* instrument has at most one non-CLOSED position, and an open_position call
\* for an instrument that already has an OPEN or PARTIAL position is rejected
\* and changes nothing.
PmNonClosed(st, sym) ==
    {<<"open", s>> : s \in {x \in DOMAIN st.positions :
                              st.positions[x].symbol = sym
                              /\ st.positions[x].status # "closed"}}
    \cup {<<"closed_positions", i>> : i \in {j \in 1..Len(st.closed_positions) :
                              st.closed_positions[j].symbol = sym
                              /\ st.closed_positions[j].status # "closed"}}

FxNonClosed(st, pair) ==
    {k \in DOMAIN st.positions : st.positions[k].pair_code = pair}

C2_OnePositionPerInstrument ==
    /\ [](/\ \A sym \in Symbols : Cardinality(PmNonClosed(pm, sym)) <= 1
          /\ \A pair \in FxCodes : Cardinality(FxNonClosed(fx, pair)) <= 1)
    /\ [][/\ (last_call'.op = "open_position" /\ has_open_position(pm, last_call'.key))
               => (~last_call'.ok /\ pm' = pm)
          /\ (last_call'.op = "fx_open_position" /\ last_call'.key \in DOMAIN fx.positions)
               => (~last_call'.ok /\ fx' = fx)]_vars

\* open_position was just rejected for a symbol whose position is PARTIAL,
\* although capital and slots were left for it
C2_Witness ==
    /\ engine = "pm"
    /\ last_call.op = "open_position" /\ ~last_call.ok
    /\ has_open_position(pm, last_call.key)
    /\ pm.positions[last_call.key].status = "partial"
    /\ can_open_position(pm, 300)

\* C3 (I4, trailing stop monotonicity), Trader.manage_position: once the
\* trailing stop is armed, the stop price the current price is compared with
\* never decreases from one observation of the position to the next.
C3_TrailingStopMonotone ==
    [][(active_position # NoPos /\ obs.trail_armed /\ obs'.trail_armed)
         => obs'.stop >= obs.stop]_vars

\* C4 (I3, breakeven floor): once armed, Trader.breakeven_stop_price never
\* decreases and the stop compared on a later observation is never below it;
\* ForexBacktest stop_price, once raised to entry after TP1, never decreases
\* and stays at or above entry, until the position closes.
BtTradeAfter(b) ==
    IF b.active_trade # NoTrade THEN b.active_trade ELSE b.trades[Len(b.trades)]

C4_BreakevenFloor ==
    [][/\ (active_position # NoPos /\ active_position.breakeven_stop_price > 0)
            => /\ active_position' # NoPos =>
                    active_position'.breakeven_stop_price
                        >= active_position.breakeven_stop_price
               /\ (last_call'.op = "manage_position" /\ now' = now
                   /\ obs'.kind # "time_exit")
                    => obs'.stop >= active_position.breakeven_stop_price
       /\ (bt.active_trade # NoTrade /\ bt.active_trade.tp1_hit)
            => /\ BtTradeAfter(bt').stop_price >= bt.active_trade.stop_price
               /\ BtTradeAfter(bt').stop_price >= bt.active_trade.entry_price]_vars

\* a Trader position was closed by its breakeven stop: price above entry, at
\* or below the armed breakeven price
C4_Witness ==
    /\ engine = "trader"
    /\ active_position = NoPos
    /\ obs.kind = "stop"
    /\ obs.stop = 10000 * (SCALE + BreakevenBufferBp)
    /\ obs.price = 10005

\* C5 (idempotence): execute_dca on a position whose dca_done is set, and
\* close_position on an instrument whose position is already closed, return
\* the not-applicable result and leave capital, PnL, sizes and the closed-trade
\* log as they were (both portfolio managers for close_position).
PmClosedSymbols(st) == {st.closed_positions[i].symbol : i \in 1..Len(st.closed_positions)}
FxClosedPairs(st) == {st.trade_history[i].pair : i \in 1..Len(st.trade_history)}

C5_Idempotence ==
    [][/\ (/\ last_call'.op = "execute_dca"
           /\ last_call'.key \in DOMAIN pm.positions
           /\ pm.positions[last_call'.key].dca_done)
            => (~last_call'.ok /\ pm' = pm)
       /\ (/\ last_call'.op = "close_position"
           /\ last_call'.key \in PmClosedSymbols(pm)
           /\ last_call'.key \notin DOMAIN pm.positions)
            => (~last_call'.ok /\ pm' = pm)
       /\ (/\ last_call'.op = "fx_close_position"
           /\ last_call'.key \in FxClosedPairs(fx)
           /\ last_call'.key \notin DOMAIN fx.positions)
            => (~last_call'.ok /\ fx' = fx)]_vars

\* execute_dca was just refused for an OPEN position that has had its DCA,
\* with capital left for another one
C5_Witness ==
    /\ engine = "pm"
    /\ last_call.op = "execute_dca" /\ ~last_call.ok
    /\ last_call.key \in DOMAIN pm.positions
    /\ pm.positions[last_call.key].dca_done
    /\ pm.positions[last_call.key].status = "open"
    /\ pm.closed_positions # <<>>

\* C6 (scale-level ordering): a scale level marked hit implies every
\* lower-indexed level is marked hit, in Trader and in ForexBacktest.
Ascending(hit) == \A i \in 1..Len(hit) : hit[i] => \A j \in 1..(i - 1) : hit[j]

C6_ScaleLevelOrdering ==
    /\ active_position # NoPos => Ascending(active_position.scale_levels_hit)
    /\ bt.active_trade # NoTrade => Ascending(bt.active_trade.scale_levels_hit)
    /\ \A i \in 1..Len(bt.trades) : Ascending(bt.trades[i].scale_levels_hit)

\* a Trader position after a price that jumped over the first two targets at
\* once: the first level is hit, the second is still to come
C6_Witness ==
    /\ engine = "trader"
    /\ active_position # NoPos
    /\ obs.kind = "scale" /\ obs.level = 1 /\ obs.price = 10250
    /\ active_position.scale_levels_hit = <<TRUE, FALSE, FALSE>>

\* C7 (DCA fires once, default configuration): on an observation of an open,
\* not yet DCA'd position at a loss at or beyond dca_trigger_percent, with the
\* hold time below the maximum, the DCA executes.
C7_DcaFiresAtTrigger ==
    [][(/\ cfg = DefaultConfig
        /\ active_position # NoPos
        /\ ~active_position.dca_done
        /\ last_call'.op = "manage_position" /\ now' = now
        /\ now - active_position.entry_time < cfg.max_hold_time
        /\ (obs'.price - active_position.entry_price) * SCALE
              <= -cfg.dca_trigger_percent * active_position.entry_price)
         => obs'.dca]_vars

\* C8 (breakeven arming, partial scaling): after the first scale level has
\* been hit, an observation at or below entry plus the fee buffer closes the
\* remaining position.
C8_BreakevenAfterFirstScale ==
    [][(/\ cfg.use_partial_scaling
        /\ active_position # NoPos
        /\ active_position.scale_levels_hit[1]
        /\ last_call'.op = "manage_position" /\ now' = now
        /\ obs'.price * SCALE
              <= active_position.entry_price * (SCALE + BreakevenBufferBp))
         => active_position' = NoPos]_vars

\* C9 (time exit): a manage step on a position held for at least the maximum
\* closes it whatever the price, without DCA or scale-out, and the close
\* reason recorded is TIME_EXIT.
C9_TimeExit ==
    [][(/\ active_position # NoPos
        /\ cfg.use_time_exit
        /\ now - active_position.entry_time >= cfg.max_hold_time
        /\ last_call'.op = "manage_position" /\ now' = now)
         => /\ active_position' = NoPos
            /\ ~obs'.dca /\ obs'.level = 0
            /\ Len(trade_history') = Len(trade_history) + 1
            /\ trade_history'[Len(trade_history')].close_reason = "time_exit"]_vars

\* C10 (daily-loss circuit breaker): once the cumulative daily PnL is at or
\* below -daily_loss_limit, can_trade_today() is false after every operation
\* that follows on that calendar day.
C10_DailyLossLatch ==
    [][(daily_stats.pnl_usd <= -DailyLossLimit /\ Today(now') = Today(now))
         => ~can_trade_today(daily_stats', now')[1]]_vars

\* C11 (day-boundary reset): when the calendar date is past the date stored in
\* daily_stats, the next can_trade_today() or record_trade() works on counters
\* reset for the new day, and a RiskManager restarted from the state file
\* starts with the counters of a new day.
RiskCounters(ds) ==
    <<ds.trades_today, ds.wins, ds.losses, ds.pnl_usd, ds.consecutive_losses>>

C11_DayBoundaryReset ==
    [][(engine = "risk" /\ now' = now /\ Today(now) > daily_stats.date)
         => /\ last_call'.op = "can_trade_today"
                 => RiskCounters(daily_stats') = RiskCounters(new_day(now))
            /\ last_call'.op = "record_trade"
                 => \E x \in RmPnls :
                       RiskCounters(daily_stats') = RiskCounters(record_trade(new_day(now), x))
            /\ (last_call'.op = "restart" /\ last_call'.ok)
                 => RiskCounters(daily_stats') = RiskCounters(new_day(now))]_vars

\* C12 (consecutive-loss cooldown): while a pause is running, every
\* can_trade_today() returns false; once the pause has run out, with the N
\* losing trades the only trades recorded and the daily loss limit not
\* reached, can_trade_today() returns true.
C12_ConsecutiveLossCooldown ==
    [][(/\ engine = "risk"
        /\ last_call'.op = "can_trade_today" /\ now' = now
        /\ daily_stats.paused_until # NoPause)
         => /\ now < daily_stats.paused_until => ~last_call'.ok
            /\ (/\ now >= daily_stats.paused_until
                /\ daily_stats.trades_today = MaxConsecutiveLosses
                /\ daily_stats.losses = MaxConsecutiveLosses
                /\ daily_stats.pnl_usd > -DailyLossLimit)
                 => last_call'.ok]_vars

\* C13 (correlation gate): an entry for an instrument whose correlation
\* magnitude with at least one open instrument exceeds the threshold is not
\* opened, in the forex PortfolioManager (where, max positions and duplicate
\* checks passed, the reason is the correlation) and in the correlation check
\* of the snail Trader.check_entry.
FxCorrelatedWithOpen(st, corr, pair) ==
    \E o \in DOMAIN st.positions :
        o # pair /\ corr # FxNoCorr /\ Abs(corr) > FxThreshold

CtCorrelatedWithOpen(t, symbol, active) ==
    \E o \in active : o # symbol /\ Abs(t[{symbol, o}]) > CtThreshold

C13_CorrelationGate ==
    [][/\ (/\ last_call'.op = "fx_open_position" /\ fx_corr' = fx_corr
           /\ last_call'.key \in FxPairs
           /\ FxCorrelatedWithOpen(fx, fx_corr, last_call'.key))
            => /\ ~last_call'.ok /\ fx' = fx
               /\ (/\ Cardinality(DOMAIN fx.positions) < fx.max_positions
                   /\ last_call'.key \notin DOMAIN fx.positions)
                    => fx_can_open_position(fx, fx_corr, last_call'.key)[2] = "Correlated"
       /\ (/\ last_call'.op = "check_entry_correlation" /\ tracker' = tracker
           /\ CtCorrelatedWithOpen(tracker, last_call'.key, last_call'.active))
            => ~last_call'.ok]_vars

\* C14 (admission control, forex PortfolioManager): open_position succeeds
\* exactly when the pair is configured, fewer than max_positions positions are
\* open, the pair has no open position and is not correlated with an open
\* pair; a rejected call leaves positions, capital, total_pnl and
\* trade_history unchanged, an accepted one adds the position and nothing else.
FxAdmissible(st, corr, pair) ==
    /\ pair \in FxPairs
    /\ Cardinality(DOMAIN st.positions) < st.max_positions
    /\ pair \notin DOMAIN st.positions
    /\ ~FxCorrelatedWithOpen(st, corr, pair)

C14_AdmissionControl ==
    [][(last_call'.op = "fx_open_position" /\ fx_corr' = fx_corr)
         => /\ last_call'.ok <=> FxAdmissible(fx, fx_corr, last_call'.key)
            /\ ~last_call'.ok => fx' = fx
            /\ last_call'.ok
                 => /\ DOMAIN fx'.positions = DOMAIN fx.positions \cup {last_call'.key}
                    /\ fx'.capital = fx.capital /\ fx'.total_pnl = fx.total_pnl
                    /\ fx'.trade_history = fx.trade_history]_vars

\* with room for another position, an open_position for the free pair was
\* just rejected because it is correlated with the open one
C14_Witness ==
    /\ engine = "fx"
    /\ last_call.op = "fx_open_position" /\ ~last_call.ok
    /\ fx.max_positions = 2 /\ Cardinality(DOMAIN fx.positions) = 1
    /\ fx.trade_history # <<>>
    /\ fx_can_open_position(fx, fx_corr, last_call.key) = <<FALSE, "Correlated">>

\* C15 (determinism of the driver): what Trader decides on the next
\* observation does not depend on the wall-clock time at which the observation
\* is processed: the entry gates of check_entry and the time exit and trailing
\* update of manage_position are the same before and after the clock moves
\* with no observation in between.
C15_DecisionsIndependentOfClock ==
    [][(engine = "trader" /\ now' # now)
         => /\ is_trading_window(now') = is_trading_window(now)
            /\ can_trade_today(daily_stats, now')[1] = can_trade_today(daily_stats, now)[1]
            /\ active_position # NoPos
                 => /\ TimeExitDue(active_position, cfg, now')
                         = TimeExitDue(active_position, cfg, now)
                    /\ TrailingDue(active_position, now')
                         = TrailingDue(active_position, now)]_vars

\* C16 (weekend gate windows): is_trading_allowed(t) is false exactly for t in
\* [Friday 20:00, Sunday 22:00) and is_entry_allowed(t) is false exactly for t
\* in [Friday 18:00, Sunday 22:00), whatever was called before; so an allowed
\* entry is a time at which trading is allowed.
WeekMinute(d, h, m) == d * MinutesPerDay + h * MinutesPerHour + m
NoTradingWindow(t) == WeekMinute(4, 20, 0) <= t /\ t < WeekMinute(6, 22, 0)
NoEntryWindow(t) == WeekMinute(4, 18, 0) <= t /\ t < WeekMinute(6, 22, 0)

C16_WeekendGateWindows ==
    /\ (last_call.op = "is_trading_allowed")
         => (last_call.ok <=> ~NoTradingWindow(last_call.dt.clock))
    /\ (last_call.op = "is_entry_allowed")
         => /\ last_call.ok <=> ~NoEntryWindow(last_call.dt.clock)
            /\ last_call.ok => is_trading_allowed(weekend, last_call.dt)[1]

\* is_entry_allowed just said no on Friday 18:00, after an is_trading_allowed
\* call during the weekend had set closed_due_to_weekend and a later one had
\* cleared it
C16_Witness ==
    /\ engine = "weekend"
    /\ last_call.op = "is_entry_allowed" /\ ~last_call.ok
    /\ last_call.dt.clock = WeekMinute(4, 18, 0)
    /\ ~weekend.closed_due_to_weekend
    /\ weekend.last_weekend_check = WeekMinute(4, 18, 0)

\* C17 (session mapping): get_current_session returns OVERLAP for
\* [13:00,17:00), ASIAN for [00:00,09:00), LONDON for [09:00,13:00), NEW_YORK
\* for [17:00,22:00) and ASIAN for [22:00,24:00), the same for a naive and a
\* timezone-aware datetime with the same clock time.
SessionOf(c) ==
    IF TimeHM(13, 0) <= c /\ c < TimeHM(17, 0) THEN "overlap"
    ELSE IF c < TimeHM(9, 0) THEN "asian"
    ELSE IF c < TimeHM(13, 0) THEN "london"
    ELSE IF c < TimeHM(22, 0) THEN "new_york"
    ELSE "asian"

C17_SessionMapping ==
    (last_call.op = "get_current_session")
       => /\ last_call.key = SessionOf(last_call.dt.clock % MinutesPerDay)
          /\ \A z \in SmZones :
                get_current_session([last_call.dt EXCEPT !.tzinfo = z]) = last_call.key

\* 08:30 on a timezone-aware datetime, where the ASIAN and LONDON ranges of
\* the code overlap, came out as ASIAN
C17_Witness ==
    /\ engine = "session"
    /\ last_call.op = "get_current_session"
    /\ last_call.dt = [clock |-> TimeHM(8, 30), tzinfo |-> "+08:00"]
    /\ last_call.key = "asian"

\* C18 (restart round trip of the snail_scalp PortfolioManager): a new
\* PortfolioManager constructed on the state file written by the last
\* mutation has the state the old one had: open positions, closed positions,
\* available_capital, total_allocated and total_realized_pnl.
C18_RestartRoundTrip ==
    [][ (engine = "pm" /\ proc.running /\ last_call'.op = "restart"
           /\ disk.portfolio = PmSaveState(pm))
          => pm' = pm ]_vars

\* C19 (crash recovery of Trader): a Trader restarted on the same results
\* file while a position is open holds that position as open, and the closed
\* trades recorded before are still in its trade history.
C19_CrashRecovery ==
    [][ (engine = "trader" /\ last_call'.op = "restart" /\ last_call'.ok)
          => /\ active_position' = active_position
             /\ trade_history' = trade_history ]_vars

\* C20 (all-or-nothing persistence): whenever the process stops inside
\* PortfolioManager._save_state, RiskManager._save_state or
\* Trader._save_history, each state file holds a complete state, never a
\* partial or empty record.
C20_AllOrNothingPersistence ==
    \A f \in DOMAIN disk : disk[f] # TornFile

\* C21 (max concurrent positions, snail_scalp PortfolioManager): a manager
\* constructed with max_positions = N and no state file never holds more
\* than N OPEN or PARTIAL positions, and an open_position call made while N
\* positions are open is rejected.
C21_MaxConcurrentPositions ==
    (engine = "pm") =>
       /\ open_position_count(pm) <= pm_max_positions
       /\ (last_call.op = "open_position" /\ last_call.ok)
             => open_position_count(pm) - 1 < pm_max_positions

\* C22 (at most one scale level per observation): one price observation of
\* an open position marks at most one more scale level as hit, also when the
\* price has jumped over several targets not yet hit, in Trader and in
\* ForexBacktest.
ScaleHits(hit) == Cardinality({i \in 1..Len(hit) : hit[i]})

C22_OneScaleLevelPerObservation ==
    [][/\ (active_position # NoPos /\ active_position' # NoPos)
            => ScaleHits(active_position'.scale_levels_hit)
                  <= ScaleHits(active_position.scale_levels_hit) + 1
       /\ (bt.active_trade # NoTrade /\ bt' # bt)
            => ScaleHits(BtTradeAfter(bt').scale_levels_hit)
                  <= ScaleHits(bt.active_trade.scale_levels_hit) + 1]_vars

\* C23 (final scale level is a full exit): the observation on which the last
\* level of the scale list is hit closes the position: it is moved to the
\* history with a close reason and nothing stays open, in Trader and in
\* ForexBacktest.
C23_FinalScaleLevelFullExit ==
    [][/\ (/\ active_position # NoPos
           /\ last_call'.op = "manage_position" /\ now' = now
           /\ obs'.kind = "scale" /\ obs'.level = Len(PartialScaleLevels))
            => /\ active_position' = NoPos
               /\ Len(trade_history') = Len(trade_history) + 1
       /\ (/\ bt.active_trade # NoTrade /\ bt' # bt
           /\ ~bt.active_trade.scale_levels_hit[Len(BtTargetPips)]
           /\ BtTradeAfter(bt').scale_levels_hit[Len(BtTargetPips)])
            => /\ bt'.active_trade = NoTrade
               /\ Len(bt'.trades) = Len(bt.trades) + 1
               /\ bt'.trades[Len(bt'.trades)].close_reason = "tp3"]_vars

\* C24 (per-observation ordering in the drivers): an observation that starts
\* with a position open runs exit logic only and opens no position, also
\* when the position closes on it; a position held for the maximum time is
\* closed by the time exit whatever the price, so also when the stop is met;
\* a stop that is met closes before any scale-out; one observation records
\* at most one closure.
C24_ObservationOrdering ==
    [][/\ (active_position # NoPos /\ last_call'.op = "manage_position" /\ now' = now)
            => /\ Len(trade_history') <= Len(trade_history) + 1
               /\ IF Len(trade_history') > Len(trade_history)
                  THEN active_position' = NoPos
                  ELSE /\ active_position' # NoPos
                       /\ active_position'.entry_time = active_position.entry_time
               /\ TimeExitDue(active_position, cfg, now)
                    => /\ obs'.kind = "time_exit"
                       /\ Len(trade_history') = Len(trade_history) + 1
                       /\ trade_history'[Len(trade_history')].close_reason
                             = TimeExitReason
               /\ (~TimeExitDue(active_position, cfg, now)
                   /\ obs'.price * SCALE <= obs'.stop)
                    => /\ obs'.kind = "stop" /\ obs'.level = 0
                       /\ Len(trade_history') = Len(trade_history) + 1
                       /\ trade_history'[Len(trade_history')].close_reason = "stop_loss"
       /\ (active_position # NoPos /\ last_call'.op = "check_entry" /\ now' = now)
            => /\ ~last_call'.ok
               /\ active_position' = active_position
       /\ (bt.active_trade # NoTrade /\ last_call'.op = "bt_bar" /\ bt' # bt)
            => /\ Len(bt'.trades) <= Len(bt.trades) + 1
               /\ IF Len(bt'.trades) > Len(bt.trades)
                  THEN bt'.active_trade = NoTrade
                  ELSE /\ bt'.active_trade # NoTrade
                       /\ bt'.active_trade.entry_time = bt.active_trade.entry_time
               /\ (bt'.time - bt.active_trade.entry_time >= BtMaxHoldHours)
                    => /\ Len(bt'.trades) = Len(bt.trades) + 1
                       /\ bt'.trades[Len(bt'.trades)].close_reason = "time_exit"
               /\ (bt'.time - bt.active_trade.entry_time < BtMaxHoldHours
                   /\ bt'.last_close <= bt.active_trade.stop_price)
                    => /\ Len(bt'.trades) = Len(bt.trades) + 1
                       /\ bt'.trades[Len(bt'.trades)].close_reason = "stop_loss"
                       /\ bt'.trades[Len(bt'.trades)].scale_levels_hit
                             = bt.active_trade.scale_levels_hit]_vars

\* a ForexBacktest bar on which the hold time was up and the Close was at or
\* below the stop closed the trade as a time exit
C24_Witness ==
    /\ engine = "bt"
    /\ last_call.op = "bt_bar"
    /\ bt.active_trade = NoTrade
    /\ Len(bt.trades) = 1
    /\ bt.trades[1].close_reason = "time_exit"
    /\ bt.trades[1].exit_time - bt.trades[1].entry_time >= BtMaxHoldHours
    /\ bt.trades[1].exit_price <= bt.trades[1].stop_price
    /\ bt.time = bt.trades[1].exit_time

\* C25 (per-instrument allocation cap, snail_scalp PortfolioManager): after
\* any sequence of open_position and execute_dca calls the size_usd of every
\* open position is at most max_allocation_per_token.
C25_AllocationCap ==
    \A k \in DOMAIN pm.positions :
        pm.positions[k].size_usd <= pm.max_allocation_per_token

\* C26 (invalid sizing input): a position-size request with a zero or
\* negative stop distance comes back to the caller as a value that is not a
\* positive size; no exception is raised.
C26_InvalidSizingInput ==
    /\ (last_call.op = "calculate_position_size" /\ last_call.args[3] <= 0)
         => /\ last_call.out.kind = "return"
            /\ last_call.out.lots <= 0
    /\ (last_call.op = "calculate" /\ last_call.args[2] = last_call.args[3])
         => /\ last_call.out.kind = "return"
            /\ last_call.out.lots <= 0

\* C27 (stop-distance cap): for every entry price, ATR value and configured
\* cap the initial stop of get_exit_levels lies below the entry by no more
\* than the cap (max_stop_pct of entry in snail_scalp, stop_pips in
\* forex_bot), and with no ATR available it is the fixed stop the cap gives.
C27_StopDistanceCap ==
    (last_call.op = "get_exit_levels") =>
        LET entry == last_call.args[1]
            atr == last_call.args[2]
            cap == last_call.args[3]
        IN IF last_call.key = "snail_scalp"
           THEN /\ entry * SCALE - last_call.out <= entry * cap
                /\ atr = 0 => last_call.out = entry * (SCALE - cap)
           ELSE /\ entry - last_call.out <= cap
                /\ atr = 0 => last_call.out = entry - cap

\* sum of pnl_usd over a trade history
HistoryPnl(history) ==
    SumOver([i \in DOMAIN history |-> history[i].pnl_usd], DOMAIN history)

\* C28 (realized PnL is counted once in Trader): whenever no position is
\* active, every position closed so far in partial and full closes, the
\* Trader's total_pnl is the sum of pnl_usd over trade_history, and as long
\* as the day has not changed the daily PnL of the RiskManager is that same
\* sum, each closed portion having been counted once.
C28_RealizedPnlCountedOnce ==
    (engine = "trader" /\ active_position = NoPos) =>
        /\ total_pnl = HistoryPnl(trade_history)
        /\ daily_stats.date = Today(T0) => daily_stats.pnl_usd = HistoryPnl(trade_history)

\* every entry of state.positions is OPEN or PARTIAL, every entry of
\* closed_positions is CLOSED with its exit price and close reason set
PmLifecycleStates(st) ==
    /\ \A s \in DOMAIN st.positions : st.positions[s].status \in {"open", "partial"}
    /\ \A i \in 1..Len(st.closed_positions) :
          /\ st.closed_positions[i].status = "closed"
          /\ st.closed_positions[i].exit_price > 0
          /\ st.closed_positions[i].close_reason # "none"

C30_EntryGating ==
    [][ /\ (active_position = NoPos /\ active_position' # NoPos) =>
              /\ last_call'.op = "check_entry" /\ last_call'.ok
              /\ can_trade_today(daily_stats, now)[1]
              /\ is_trading_window(now)
        /\ (/\ last_call'.op = "check_entry" /\ now' = now
            /\ \/ active_position # NoPos
               \/ ~can_trade_today(daily_stats, now)[1]
               \/ ~is_trading_window(now)) =>
              /\ ~last_call'.ok
              /\ UNCHANGED <<active_position, trade_history, total_pnl>> ]_vars

\* after a closed trade, with no position active, check_entry was refused
\* outside the trading window
C30_Witness ==
    /\ engine = "trader"
    /\ last_call.op = "check_entry" /\ ~last_call.ok
    /\ active_position = NoPos
    /\ Len(trade_history) > 0
    /\ can_trade_today(daily_stats, now)[1]
    /\ ~is_trading_window(now)

\* after a closed trade, with no position active and inside the trading
\* window, check_entry was refused by can_trade_today, which set the pause
C30_WitnessRisk ==
    /\ engine = "trader"
    /\ last_call.op = "check_entry" /\ ~last_call.ok
    /\ active_position = NoPos
    /\ Len(trade_history) > 0
    /\ is_trading_window(now)
    /\ daily_stats.paused_until # NoPause
    /\ ~can_trade_today(daily_stats, now)[1]

====
